---------------------------- MODULE Spec2Model ----------------------------
(***************************************************************************)
(* A model of the naeturbok backend (src/app.py): the marshmallow schemas  *)
(* that normalise an inbound JSON body, and the Flask handlers that read   *)
(* and write the two MongoDB collections, `collection` (the nightly log)   *)
(* and `postop_collection`; the migration scripts (src/migrate_*.py) that   *)
(* rewrite the stored documents; and create_record as concurrent workers   *)
(* run it, one database call per step.                                     *)
(*                                                                         *)
(* Representation.  A JSON object / BSON document is a TLA+ record whose   *)
(* DOMAIN is the set of keys that are present.  A string whose characters  *)
(* matter (a date, a query bound) is a sequence of one-character strings.  *)
(* A value whose type is not fixed by its field ('or-mp', 'mp-por', 'km')  *)
(* is a tagged scalar [t, s, n].  An ObjectId is a natural number, and the *)
(* text of one in a URL is a record [len, hex, upper].                     *)
(***************************************************************************)
EXTENDS Integers, Sequences, FiniteSets, TLC

VARIABLES
    collection,         \* db[COLLECTION_NAME]: ObjectId -> nightly document
    postop_collection,  \* db['postop']:        ObjectId -> postop document
    oids,               \* number of ObjectIds generated so far
    request,            \* the request handled by the last step
    response,           \* the response the handler returned for it
    inflight            \* the requests that workers are handling concurrently

vars == <<collection, postop_collection, oids, request, response, inflight>>

\* Bound: how many ObjectIds (documents ever inserted, in both collections).
MaxOid == 3

\* Bound: how many documents the postop collection holds.
MaxPostOp == 2

Empty == [k \in {} |-> 0]

\* the workers that serve requests at the same time, and one that serves none
Workers == {1, 2}

Idle == [pc |-> "idle"]

Has(d, k) == k \in DOMAIN d

\* marshmallow: a field absent from the input resolves to its load_default,
\* which is used as it is (it is not passed through the field's deserializer).
LoadField(d, k, default) == IF Has(d, k) THEN d[k] ELSE default

Range(s) == {s[i] : i \in 1..Len(s)}

-----------------------------------------------------------------------------
(* Tagged scalars *)

Null == [t |-> "null", s |-> "", n |-> 0]
Str(x) == [t |-> "str", s |-> x, n |-> 0]
Int_(x) == [t |-> "int", s |-> "", n |-> x]
Bool(b) == [t |-> "bool", s |-> "", n |-> IF b THEN 1 ELSE 0]
\* a float, in halves: Float(1) is 0.5, Float(2) is 1.0
Float(h) == [t |-> "float", s |-> "", n |-> h]

\* Python's x == 'no'
PyEqStr(x, lit) == x.t = "str" /\ x.s = lit

\* Python's `x in [0, 1, 2]`: == on numbers, where True == 1, False == 0 and
\* 1.0 == 1; a str or None equals no number.
PyInInts(x, S) ==
    \/ x.t \in {"int", "bool"} /\ x.n \in S
    \/ x.t = "float" /\ x.n % 2 = 0 /\ (x.n \div 2) \in S

\* Python truthiness of a value that is None or a str
PyTruthy(x) == ~(x.t = "null") /\ ~(x.t = "str" /\ x.s = "")

-----------------------------------------------------------------------------
(* Character strings: dates *)

Digits == <<"0", "1", "2", "3", "4", "5", "6", "7", "8", "9">>

IsDigit(c) == c \in Range(Digits)

DigitVal(c) == (CHOOSE i \in 1..10 : Digits[i] = c) - 1

\* code point of the characters the model uses: the digits and '-'
Ord == [c \in Range(Digits) \cup {"-"} |-> IF c = "-" THEN 45 ELSE 48 + DigitVal(c)]

\* a <= b in the binary (code point) order of strings, the order in which
\* MongoDB compares and sorts them: decided at the first position where the
\* two differ, a proper prefix coming first
StrLeq(a, b) ==
    LET differ == {i \in 1..Len(a) : i > Len(b) \/ a[i] # b[i]}
        first == CHOOSE i \in differ : \A j \in differ : i <= j
    IN IF differ = {} THEN TRUE
       ELSE IF first > Len(b) THEN FALSE
       ELSE Ord[a[first]] < Ord[b[first]]

RECURSIVE ToInt(_)
ToInt(s) == IF s = <<>> THEN 0 ELSE 10 * ToInt(SubSeq(s, 1, Len(s) - 1)) + DigitVal(s[Len(s)])

AllDigits(s) == \A i \in 1..Len(s) : IsDigit(s[i])

IsLeap(y) == (y % 4 = 0 /\ y % 100 # 0) \/ y % 400 = 0

DaysInMonth(y, m) ==
    IF m = 2 THEN (IF IsLeap(y) THEN 29 ELSE 28)
    ELSE IF m \in {4, 6, 9, 11} THEN 30 ELSE 31

\* datetime.date(y, m, d) raises ValueError outside these ranges
ValidDate(y, m, d) == y >= 1 /\ m \in 1..12 /\ d >= 1 /\ d <= DaysInMonth(y, m)

\* The ways the text matches (\d{4})-(\d{1,2})-(\d{1,2})$ : the widths of the
\* month and the day.
IsoShapes(s) ==
    {w \in {1, 2} \X {1, 2} :
        /\ Len(s) = 6 + w[1] + w[2]
        /\ AllDigits(SubSeq(s, 1, 4))
        /\ s[5] = "-"
        /\ AllDigits(SubSeq(s, 6, 5 + w[1]))
        /\ s[6 + w[1]] = "-"
        /\ AllDigits(SubSeq(s, 7 + w[1], Len(s)))}

\* fields.Date deserialization: the text to a date <<y, m, d>>, or <<>> when
\* it is "Not a valid date."
from_iso_date(s) ==
    IF IsoShapes(s) = {} THEN <<>>
    ELSE LET w == CHOOSE x \in IsoShapes(s) : TRUE
             y == ToInt(SubSeq(s, 1, 4))
             m == ToInt(SubSeq(s, 6, 5 + w[1]))
             d == ToInt(SubSeq(s, 7 + w[1], Len(s)))
         IN IF ValidDate(y, m, d) THEN <<y, m, d>> ELSE <<>>

\* zero-padded decimal of n in `width` digits
RECURSIVE Pad(_, _)
Pad(n, width) == IF width = 0 THEN <<>> ELSE Pad(n \div 10, width - 1) \o <<Digits[(n % 10) + 1]>>

\* date.strftime('%Y-%m-%d')
strftime(dt) == Pad(dt[1], 4) \o <<"-">> \o Pad(dt[2], 2) \o <<"-">> \o Pad(dt[3], 2)


-----------------------------------------------------------------------------
(* Schemas of the nightly log.  X_errors(d) is the set of the fields whose  *)
(* messages schema.load(d) raises in its ValidationError; X_load(d) is what *)
(* it returns when that set is empty.  A schema declares no Meta.unknown,   *)
(* so a key it does not declare is an error ("Unknown field.").             *)

\* a field whose input fails its validate= predicate
Invalid(d, k, allowed) == Has(d, k) /\ d[k] \notin allowed

LekarFields == {"tími", "aðvarun", "styrkur", "þörf"}

LekarSchema_errors(d) ==
    (DOMAIN d \ LekarFields)
        \cup {k \in {"tími"} : ~Has(d, k)}
        \cup {k \in {"styrkur"} : Invalid(d, k, {0, 1, 2, 3})}
        \cup {k \in {"þörf"} : Invalid(d, k, {0, 1, 2})}

LekarSchema_load(d) ==
    [k \in LekarFields |->
        CASE k = "tími" -> d[k]
          [] k = "aðvarun" -> LoadField(d, k, FALSE)
          [] k = "styrkur" -> LoadField(d, k, 1)
          [] k = "þörf" -> LoadField(d, k, 0)]

LatFields == {"tími", "flaedi"}

LatSchema_errors(d) ==
    (DOMAIN d \ LatFields)
        \cup {k \in {"tími"} : ~Has(d, k)}
        \cup {k \in {"flaedi"} : Invalid(d, k, {0, 1, 2})}

LatSchema_load(d) ==
    [k \in LatFields |-> IF k = "tími" THEN d[k] ELSE LoadField(d, k, 0)]

AfengiFields == {"bjór", "vín", "annar"}

\* fields.Int with no validate=: any integer loads
AfengiSchema_errors(d) == DOMAIN d \ AfengiFields

AfengiSchema_load(d) == [k \in AfengiFields |-> LoadField(d, k, 0)]

AefingFields == {"type", "km"}

AefingTypes == {"nej", "Dir", "Flor", "labba", "annað"}

AefingSchema_errors(d) ==
    (DOMAIN d \ AefingFields)
        \cup {k \in {"type"} : Invalid(d, k, AefingTypes)}
        \cup {k \in {"km"} : Has(d, k) /\ d[k].t \notin {"null", "int", "float"}}

\* fields.Float: float(value); None passes (allow_none)
Float_deserialize(v) == IF v.t = "int" THEN Float(2 * v.n) ELSE v

AefingSchema_load(d) ==
    [k \in AefingFields |->
        IF k = "type" THEN LoadField(d, k, "nej")
        ELSE IF Has(d, k) THEN Float_deserialize(d[k]) ELSE Null]

UpplysingarStrs == {"hvar", "sið lip", "sið-riv", "sið lio", "kvöldmatur", "sið lát", "að sofa"}

UpplysingarBools == {"sðl", "natft", "bl", "pap", "tamsul"}

UpplysingarFields == UpplysingarStrs \cup UpplysingarBools \cup {"kaffi", "áfengi", "æfing"}

UpplysingarSchema_errors(d) ==
    (DOMAIN d \ UpplysingarFields)
        \cup {k \in {"áfengi"} : Has(d, k) /\ AfengiSchema_errors(d[k]) # {}}
        \cup {k \in {"æfing"} : Has(d, k) /\ AefingSchema_errors(d[k]) # {}}

UpplysingarSchema_load(d) ==
    [k \in UpplysingarFields |->
        CASE k \in UpplysingarStrs -> LoadField(d, k, "")
          [] k \in UpplysingarBools -> LoadField(d, k, FALSE)
          [] k = "kaffi" -> LoadField(d, k, 0)
          [] k = "áfengi" -> IF Has(d, k) THEN AfengiSchema_load(d[k]) ELSE Empty
          [] k = "æfing" -> IF Has(d, k) THEN AefingSchema_load(d[k]) ELSE [type |-> "nej"]]

RecordFields == {"date", "upplýsingar", "lekar", "lát", "athugasemd", "ready", "frábært"}

RecordSchema_errors(d) ==
    (DOMAIN d \ RecordFields)
        \cup {k \in {"date"} : ~Has(d, k) \/ from_iso_date(d[k]) = <<>>}
        \cup {k \in {"upplýsingar"} : Has(d, k) /\ UpplysingarSchema_errors(d[k]) # {}}
        \cup {k \in {"lekar"} : Has(d, k) /\ \E i \in 1..Len(d[k]) : LekarSchema_errors(d[k][i]) # {}}
        \cup {k \in {"lát"} : Has(d, k) /\ \E i \in 1..Len(d[k]) : LatSchema_errors(d[k][i]) # {}}
        \cup {k \in {"frábært"} : Invalid(d, k, {0, 1, 2, 3})}

RecordSchema_load(d) ==
    [k \in RecordFields |->
        CASE k = "date" -> from_iso_date(d[k])
          [] k = "upplýsingar" -> IF Has(d, k) THEN UpplysingarSchema_load(d[k]) ELSE Empty
          [] k = "lekar" -> IF Has(d, k) THEN [i \in 1..Len(d[k]) |-> LekarSchema_load(d[k][i])] ELSE <<>>
          [] k = "lát" -> IF Has(d, k) THEN [i \in 1..Len(d[k]) |-> LatSchema_load(d[k][i])] ELSE <<>>
          [] k = "athugasemd" -> LoadField(d, k, "")
          [] k = "ready" -> LoadField(d, k, FALSE)
          [] k = "frábært" -> LoadField(d, k, 0)]

-----------------------------------------------------------------------------
(* ObjectIds, documents and responses *)

\* str(ObjectId): 24 lower-case hexadecimal characters
str_ObjectId(oid) == [len |-> 24, hex |-> oid]

\* ObjectId.is_valid(text)
ObjectId_is_valid(text) == text.len = 24

\* ObjectId(text)
ObjectId(text) == text.hex

\* a slip: find_one with no filter, which returns the first document
find_by_id_any(coll, oid) ==
    LET first == CHOOSE o \in DOMAIN coll : \A p \in DOMAIN coll : o <= p
    IN ("_id" :> first) @@ coll[first]

\* find_one({'_id': oid}) on a collection that holds oid
find_by_id(coll, oid) == ("_id" :> oid) @@ coll[oid]

\* '$set': every key of `fields` replaces the stored key, the others stay
MongoSet(doc, fields) == fields @@ doc

\* a slip: delete_one with no filter, which deletes the first document
delete_one_first(coll, oid) ==
    LET first == CHOOSE o \in DOMAIN coll : \A p \in DOMAIN coll : o <= p
    IN [o \in DOMAIN coll \ {first} |-> coll[o]]

\* delete_one({'_id': oid})
delete_one(coll, oid) == [o \in DOMAIN coll \ {oid} |-> coll[o]]

\* a slip: the update without its '$unset'
MongoUnset_noop(doc, keys) == doc

\* '$unset'
MongoUnset(doc, keys) == [k \in DOMAIN doc \ keys |-> doc[k]]

\* the stored date is a string, so neither isinstance branch changes it
serialize_record(record) ==
    ("_id" :> str_ObjectId(record["_id"]))
        @@ ("fjöldi leka" :> IF Has(record, "lekar") THEN Len(record["lekar"]) ELSE 0)
        @@ record

serialize_postop(doc) == ("_id" :> str_ObjectId(doc["_id"])) @@ doc

\* jsonify({'success': True, 'data': ...}), status
Ok(status, data) == [status |-> status, success |-> TRUE, data |-> data]

\* jsonify({'success': False, 'error': ...}), status; `fields` are the keys of
\* e.messages when the error is a ValidationError
Fail(status, message, fields) ==
    [status |-> status, success |-> FALSE, error |-> [message |-> message, fields |-> fields]]

\* a slip: the calculated field taken from the wrong list
NightlyDoc_countsLat(data) ==
    LET validated == RecordSchema_load(data)
        dated == [validated EXCEPT !["date"] = strftime(@)]
    IN ("fjöldi leka" :> Len(dated["lát"])) @@ dated

\* validated_data after lines 221-222 and 239: the date as a string and the
\* calculated field added
NightlyDoc(data) ==
    LET validated == RecordSchema_load(data)
        dated == [validated EXCEPT !["date"] = strftime(@)]
    IN ("fjöldi leka" :> Len(dated["lekar"])) @@ dated

\* a slip: the check made with the date object, which equals no stored string
find_by_date_never(coll, date) == {o \in DOMAIN coll : Has(coll[o], "date") /\ coll[o]["date"] = <<>>}

\* find_one({'date': date})
find_by_date(coll, date) == {o \in DOMAIN coll : Has(coll[o], "date") /\ coll[o]["date"] = date}

-----------------------------------------------------------------------------
(* The requests a client sends to /api/records *)

D_0101 == <<"2", "0", "2", "4", "-", "0", "1", "-", "0", "1">>
D_0115 == <<"2", "0", "2", "4", "-", "0", "1", "-", "1", "5">>
D_0131 == <<"2", "0", "2", "4", "-", "0", "1", "-", "3", "1">>
D_0201 == <<"2", "0", "2", "4", "-", "0", "2", "-", "0", "1">>
\* the same day as D_0201, written without padding
D_21 == <<"2", "0", "2", "4", "-", "2", "-", "1">>
\* no such day
D_0230 == <<"2", "0", "2", "4", "-", "0", "2", "-", "3", "0">>

LeakA == ("tími" :> "01:30") @@ ("styrkur" :> 2)
LeakB == ("tími" :> "04:45") @@ ("aðvarun" :> TRUE) @@ ("þörf" :> 1)
\* 'styrkur' outside [0, 1, 2, 3]
LeakBad == ("tími" :> "05:00") @@ ("styrkur" :> 7)

RecordBodies ==
    {[date |-> d] : d \in {D_0201, D_21, D_0230}}
        \cup {[date |-> D_0101, lekar |-> <<LeakA, LeakB>>] @@ ("upplýsingar" :> Empty),
              [date |-> D_0115, lekar |-> <<LeakA>>, ready |-> TRUE] @@ ("frábært" :> 2),
              [date |-> D_0115, lekar |-> <<LeakA>>] @@ ("fjöldi leka" :> 5),
              [date |-> D_0201, lekar |-> <<LeakBad>>],
              [lekar |-> <<>>]}

\* the texts a client puts in the URL: str() of every ObjectId, and one that
\* is not 24 hexadecimal characters
IdTexts == {str_ObjectId(o) : o \in 1..MaxOid} \cup {[len |-> 5, hex |-> 1]}

QueryArgs ==
    {Empty, [start_date |-> D_0115, end_date |-> <<>>], [end_date |-> D_0115],
     [start_date |-> <<>>, end_date |-> D_21],
     [start_date |-> D_0101, end_date |-> D_0131]}

\* bodies that carry the nested objects of 'upplýsingar'
InfoBodies ==
    {[date |-> D_0201],
     [date |-> D_0101] @@ ("upplýsingar" :> ("áfengi" :> ("bjór" :> (0 - 1)))),
     [date |-> D_0115] @@ ("upplýsingar" :> ("áfengi" :> (("bjór" :> 2) @@ ("vín" :> 0)))),
     [date |-> D_0131] @@ ("upplýsingar" :> (("æfing" :> [type |-> "labba", km |-> Float(5)])
                                              @@ [hvar |-> "heima"])),
     [date |-> D_0115] @@ ("upplýsingar" :> ("áfengi" :> ("sterkt" :> 1)))}

\* schema.load(data) and the lines that follow it, evaluated once for each
\* body a client sends: the errors it raises, and validated_data when it
\* raises none
RecordSchema ==
    [data \in RecordBodies \cup InfoBodies |->
        [errors |-> RecordSchema_errors(data),
         validated_data |-> IF RecordSchema_errors(data) = {} THEN NightlyDoc(data) ELSE Empty]]

-----------------------------------------------------------------------------
(* Handlers of /api/records *)

\* a slip: the date checked after the insert
create_record_insertsFirst(data) ==
    LET errors == RecordSchema[data].errors
        validated_data == RecordSchema[data].validated_data
    IN
    /\ request' = [op |-> "create_record", data |-> data]
    /\ UNCHANGED inflight
    /\ IF errors # {}
       THEN /\ response' = Fail(400, "ValidationError", errors)
            /\ UNCHANGED <<collection, postop_collection, oids>>
       ELSE /\ oids < MaxOid
            /\ oids' = oids + 1
            /\ collection' = (oids' :> validated_data) @@ collection
            /\ response' = IF find_by_date(collection, validated_data["date"]) # {}
                           THEN Fail(400, "Record for this date already exists", {})
                           ELSE Ok(201, serialize_record(find_by_id(collection', oids')))
            /\ UNCHANGED postop_collection

create_record(data) ==
    LET errors == RecordSchema[data].errors
        validated_data == RecordSchema[data].validated_data
    IN
    /\ request' = [op |-> "create_record", data |-> data]
    /\ UNCHANGED inflight
    /\ IF errors # {}
       THEN /\ response' = Fail(400, "ValidationError", errors)
            /\ UNCHANGED <<collection, postop_collection, oids>>
       ELSE IF find_by_date(collection, validated_data["date"]) # {}
       THEN /\ response' = Fail(400, "Record for this date already exists", {})
            /\ UNCHANGED <<collection, postop_collection, oids>>
       ELSE /\ oids < MaxOid
            /\ oids' = oids + 1
            /\ collection' = (oids' :> validated_data) @@ collection
            /\ response' = Ok(201, serialize_record(find_by_id(collection', oids')))
            /\ UNCHANGED postop_collection

\* a slip: update_one(..., upsert=True), which inserts under an unknown _id
update_record_upsert(record_id, data) ==
    LET errors == RecordSchema[data].errors
        validated_data == RecordSchema[data].validated_data
    IN
    /\ request' = [op |-> "update_record", id |-> record_id, data |-> data]
    /\ UNCHANGED inflight
    /\ IF ~ObjectId_is_valid(record_id)
       THEN /\ response' = Fail(400, "Invalid record ID", {})
            /\ UNCHANGED <<collection, postop_collection, oids>>
       ELSE IF errors # {}
       THEN /\ response' = Fail(400, "ValidationError", errors)
            /\ UNCHANGED <<collection, postop_collection, oids>>
       ELSE /\ collection' =
                  IF ObjectId(record_id) \in DOMAIN collection
                  THEN [collection EXCEPT ![ObjectId(record_id)] = MongoSet(@, validated_data)]
                  ELSE (ObjectId(record_id) :> validated_data) @@ collection
            /\ response' = Ok(200, serialize_record(find_by_id(collection', ObjectId(record_id))))
            /\ UNCHANGED <<postop_collection, oids>>

update_record(record_id, data) ==
    LET errors == RecordSchema[data].errors
        validated_data == RecordSchema[data].validated_data
    IN
    /\ request' = [op |-> "update_record", id |-> record_id, data |-> data]
    /\ UNCHANGED inflight
    /\ IF ~ObjectId_is_valid(record_id)
       THEN /\ response' = Fail(400, "Invalid record ID", {})
            /\ UNCHANGED <<collection, postop_collection, oids>>
       ELSE IF errors # {}
       THEN /\ response' = Fail(400, "ValidationError", errors)
            /\ UNCHANGED <<collection, postop_collection, oids>>
       ELSE IF ObjectId(record_id) \notin DOMAIN collection
       THEN /\ response' = Fail(404, "Record not found", {})
            /\ UNCHANGED <<collection, postop_collection, oids>>
       ELSE /\ collection' = [collection EXCEPT
                                 ![ObjectId(record_id)] = MongoSet(@, validated_data)]
            /\ response' = Ok(200, serialize_record(find_by_id(collection', ObjectId(record_id))))
            /\ UNCHANGED <<postop_collection, oids>>

delete_record(record_id) ==
    /\ request' = [op |-> "delete_record", id |-> record_id]
    /\ UNCHANGED inflight
    /\ IF ~ObjectId_is_valid(record_id)
       THEN /\ response' = Fail(400, "Invalid record ID", {})
            /\ UNCHANGED <<collection, postop_collection, oids>>
       ELSE IF ObjectId(record_id) \notin DOMAIN collection
       THEN /\ response' = Fail(404, "Record not found", {})
            /\ UNCHANGED <<collection, postop_collection, oids>>
       ELSE /\ collection' = delete_one(collection, ObjectId(record_id))
            /\ response' = [status |-> 200, success |-> TRUE,
                            message |-> "Record deleted successfully"]
            /\ UNCHANGED <<postop_collection, oids>>

get_record(record_id) ==
    /\ request' = [op |-> "get_record", id |-> record_id]
    /\ UNCHANGED inflight
    /\ response' =
         IF ~ObjectId_is_valid(record_id) THEN Fail(400, "Invalid record ID", {})
         ELSE IF ObjectId(record_id) \notin DOMAIN collection
         THEN Fail(404, "Record not found", {})
         ELSE Ok(200, serialize_record(find_by_id(collection, ObjectId(record_id))))
    /\ UNCHANGED <<collection, postop_collection, oids>>

\* `if start_date:` -- an absent or empty query parameter sets no bound
Truthy(args, k) == Has(args, k) /\ args[k] # <<>>

\* a slip: '$lt' for '$lte'
date_query_exclusive(args, doc) ==
    (Truthy(args, "start_date") \/ Truthy(args, "end_date")) =>
        /\ Has(doc, "date")
        /\ Truthy(args, "start_date") => StrLeq(args["start_date"], doc["date"])
        /\ Truthy(args, "end_date") =>
              StrLeq(doc["date"], args["end_date"]) /\ doc["date"] # args["end_date"]

\* the query get_records builds: {'date': {'$gte': start_date, '$lte': end_date}}
date_query(args, doc) ==
    (Truthy(args, "start_date") \/ Truthy(args, "end_date")) =>
        /\ Has(doc, "date")
        /\ Truthy(args, "start_date") => StrLeq(args["start_date"], doc["date"])
        /\ Truthy(args, "end_date") => StrLeq(doc["date"], args["end_date"])

\* find(query).sort(key, -1): the matching documents in an order that
\* descends by the key; the order of equal keys is the store's choice
RECURSIVE SortedDesc(_, _)
SortedDesc(key, matched) ==
    IF matched = {} THEN {<<>>}
    ELSE UNION {{<<m>> \o rest : rest \in SortedDesc(key, matched \ {m})} :
                  m \in {x \in matched : \A y \in matched : StrLeq(key[y], key[x])}}

get_records(args) ==
    /\ request' = [op |-> "get_records", args |-> args]
    /\ UNCHANGED inflight
    /\ \E order \in SortedDesc([o \in DOMAIN collection |-> collection[o]["date"]],
                               {o \in DOMAIN collection : date_query(args, collection[o])}) :
          response' = [status |-> 200, success |-> TRUE,
                       data |-> [i \in DOMAIN order |->
                                    serialize_record(find_by_id(collection, order[i]))],
                       count |-> Len(order)]
    /\ UNCHANGED <<collection, postop_collection, oids>>

-----------------------------------------------------------------------------
(* PostOpSchema.  Its load returns the attribute names (or_gan, or_mp, ...)  *)
(* and its errors name the data keys ('or-gan', 'or-mp', ...).               *)

\* data key -> attribute name
PostOpKeys ==
    [fecha |-> "fecha", hora |-> "hora", pos |-> "pos", hec |-> "hec", dol |-> "dol",
     ingesta |-> "ingesta"]
        @@ ("or-gan" :> "or_gan") @@ ("or-ur" :> "or_ur") @@ ("or-ch" :> "or_ch")
        @@ ("or-vol" :> "or_vol") @@ ("or-mp" :> "or_mp") @@ ("mp-por" :> "or_mp_por")
        @@ ("or-mlk" :> "or_mlk") @@ ("or-spv" :> "or_spv")
        @@ ("ingesta-cantidad" :> "ingesta_cantidad") @@ ("medicación" :> "medicacion")

\* the halves a fields.Float accepts: the tuples of lines 91, 97 and 102
FloatIn(x, halves) == x.t \in {"int", "float"} /\ Float_deserialize(x).n \in halves

Ingestas == {"", "agua", "agua con gas", "cerveza", "zumo", "leche", "otros"}

Cantidades == {"", "100 ml", "200 ml", "300 ml", "400 ml", "500 ml", "600 ml", "700 ml",
               "800 ml", "900 ml", "1l"}

Medicaciones == {"", "paracetamol 1mg", "iboprufeno 600mg", "antibiótico"}

MpPor == {"tos", "estornudo", "esfuerzo", "otro", "nada"}

\* the fields whose own deserialization or validate= fails
PostOpSchema_field_errors(d) ==
    (DOMAIN d \ DOMAIN PostOpKeys)
        \cup {k \in {"fecha", "hora", "pos"} : ~Has(d, k)}
        \cup {k \in {"pos"} : Invalid(d, k, {"depie", "sentado"})}
        \cup {k \in {"hec"} : Invalid(d, k, {0, 1})}
        \cup {k \in {"or-gan"} : Has(d, k) /\ ~FloatIn(d[k], {0, 1, 2, 4})}
        \cup {k \in {"or-ur"} : Invalid(d, k, {0, 1, 2})}
        \cup {k \in {"or-ch", "or-vol"} : Has(d, k) /\ ~FloatIn(d[k], {0, 1, 2, 3, 4, 6})}
        \cup {k \in {"or-mp"} : Has(d, k) /\ ~(PyEqStr(d[k], "no") \/ PyInInts(d[k], {0, 1, 2}))}
        \cup {k \in {"mp-por"} : Has(d, k) /\ ~(d[k].t = "null" \/ (d[k].t = "str" /\ d[k].s \in MpPor))}
        \cup {k \in {"or-mlk", "or-spv"} : Invalid(d, k, 0..10)}
        \cup {k \in {"dol"} : Invalid(d, k, 0..5)}
        \cup {k \in {"ingesta"} : Invalid(d, k, Ingestas)}
        \cup {k \in {"ingesta-cantidad"} : Invalid(d, k, Cantidades)}
        \cup {k \in {"medicación"} : Invalid(d, k, Medicaciones)}

\* what the fields deserialize to, by attribute name
PostOpSchema_fields(d) ==
    [a \in {PostOpKeys[k] : k \in DOMAIN PostOpKeys} |->
        LET k == CHOOSE x \in DOMAIN PostOpKeys : PostOpKeys[x] = a
        IN CASE k \in {"fecha", "hora", "pos"} -> d[k]
             [] k \in {"or-gan", "or-ch", "or-vol"} ->
                    IF Has(d, k) THEN Float_deserialize(d[k]) ELSE Int_(0)
             [] k = "or-mp" -> LoadField(d, k, Str("no"))
             [] k = "mp-por" -> LoadField(d, k, Null)
             [] k \in {"ingesta", "ingesta-cantidad", "medicación"} -> LoadField(d, k, "")
             [] OTHER -> LoadField(d, k, 0)]

\* a slip: `if or_mp and not or_mp_por` with the sentinel a falsy 0
validate_mp_por_truthy(data) ==
    LET or_mp == LoadField(data, "or_mp", Str("no"))
        or_mp_por == LoadField(data, "or_mp_por", Null)
    IN IF PyInInts(or_mp, {1, 2}) /\ ~PyTruthy(or_mp_por) THEN {"mp-por"} ELSE {}

\* @validates_schema validate_mp_por: the ValidationError it raises, as the
\* set of the fields it names
validate_mp_por(data) ==
    LET or_mp == LoadField(data, "or_mp", Str("no"))
        or_mp_por == LoadField(data, "or_mp_por", Null)
    IN IF PyInInts(or_mp, {0, 1, 2}) /\ ~PyTruthy(or_mp_por) THEN {"mp-por"} ELSE {}

\* a schema validator runs only when no field failed (skip_on_field_errors)
PostOpSchema_errors(d) ==
    IF PostOpSchema_field_errors(d) # {} THEN PostOpSchema_field_errors(d)
    ELSE validate_mp_por(PostOpSchema_fields(d))

PostOpSchema_load(d) == PostOpSchema_fields(d)

\* a slip: 'mp-por' kept whatever 'or-mp' is
PostOpPayload_keepsReason(validated) ==
    LET payload ==
          [k \in DOMAIN PostOpKeys \ {"mp-por"} |-> validated[PostOpKeys[k]]]
    IN IF PyTruthy(validated["or_mp_por"])
       THEN ("mp-por" :> validated["or_mp_por"]) @@ payload
       ELSE payload

\* the payload create_postop and update_postop build from `validated`
PostOpPayload(validated) ==
    LET payload ==
          [k \in DOMAIN PostOpKeys \ {"mp-por"} |-> validated[PostOpKeys[k]]]
    IN IF PyInInts(validated["or_mp"], {0, 1, 2}) /\ PyTruthy(validated["or_mp_por"])
       THEN ("mp-por" :> validated["or_mp_por"]) @@ payload
       ELSE payload

\* the bodies a client sends to /api/postop
PostOpBase == [fecha |-> "2024-03-01", hora |-> "08:00", pos |-> "depie"]

PostOpBodies ==
    {a @@ b @@ PostOpBase :
        a \in {Empty} \cup {("or-mp" :> x) : x \in {Str("no"), Int_(0), Int_(2), Bool(TRUE)}},
        b \in {Empty} \cup {("mp-por" :> x) : x \in {Null, Str("tos"), Str("")}}}
      \cup {("or-mp" :> Int_(3)) @@ ("mp-por" :> Str("tos")) @@ PostOpBase,
            [fecha |-> "2024-03-01", hora |-> "08:00", pos |-> "tumbado"]}

\* schema.load(data), evaluated once for each body a client sends
PostOpSchema ==
    [data \in PostOpBodies |->
        [errors |-> PostOpSchema_errors(data),
         validated |-> IF PostOpSchema_errors(data) = {} THEN PostOpSchema_load(data) ELSE Empty]]

-----------------------------------------------------------------------------
(* Handlers of /api/postop *)

create_postop(data) ==
    LET errors == PostOpSchema[data].errors
        validated == PostOpSchema[data].validated
    IN
    /\ request' = [op |-> "create_postop", data |-> data]
    /\ UNCHANGED inflight
    /\ IF errors # {}
       THEN /\ response' = Fail(400, "ValidationError", errors)
            /\ UNCHANGED <<collection, postop_collection, oids>>
       ELSE /\ oids < MaxOid
            /\ Cardinality(DOMAIN postop_collection) < MaxPostOp
            /\ oids' = oids + 1
            /\ postop_collection' = (oids' :> PostOpPayload(validated)) @@ postop_collection
            /\ response' = Ok(201, serialize_postop(find_by_id(postop_collection', oids')))
            /\ UNCHANGED collection

update_postop(postop_id, data) ==
    LET errors == PostOpSchema[data].errors
        validated == PostOpSchema[data].validated
        unset == IF PyEqStr(validated["or_mp"], "no") THEN {"mp-por"} ELSE {}
    IN
    /\ request' = [op |-> "update_postop", id |-> postop_id, data |-> data]
    /\ UNCHANGED inflight
    /\ IF ~ObjectId_is_valid(postop_id)
       THEN /\ response' = Fail(400, "Invalid record ID", {})
            /\ UNCHANGED <<collection, postop_collection, oids>>
       ELSE IF errors # {}
       THEN /\ response' = Fail(400, "ValidationError", errors)
            /\ UNCHANGED <<collection, postop_collection, oids>>
       ELSE IF ObjectId(postop_id) \notin DOMAIN postop_collection
       THEN /\ response' = Fail(404, "Record not found", {})
            /\ UNCHANGED <<collection, postop_collection, oids>>
       ELSE /\ postop_collection' =
                  [postop_collection EXCEPT ![ObjectId(postop_id)] =
                      MongoUnset(MongoSet(@, PostOpPayload(validated)), unset)]
            /\ response' = Ok(200, serialize_postop(find_by_id(postop_collection',
                                                               ObjectId(postop_id))))
            /\ UNCHANGED <<collection, oids>>

-----------------------------------------------------------------------------
(* The state after the module is imported: both collections as the database  *)
(* holds them; the model starts from an empty database                      *)

Init ==
    /\ collection = <<>>
    /\ postop_collection = <<>>
    /\ oids = 0
    /\ request = [op |-> "none"]
    /\ response = [status |-> 0]
    /\ inflight = [w \in Workers |-> Idle]

\* one request to /api/records at a time
Next ==
    \/ \E data \in RecordBodies : create_record(data)
    \/ \E record_id \in IdTexts, data \in RecordBodies : update_record(record_id, data)
    \/ \E record_id \in IdTexts : delete_record(record_id)
    \/ \E record_id \in IdTexts : get_record(record_id)
    \/ \E args \in QueryArgs : get_records(args)

Spec == Init /\ [][Next]_vars

\* one request to /api/postop at a time
NextPostOp ==
    \/ \E data \in PostOpBodies : create_postop(data)
    \/ \E postop_id \in IdTexts, data \in PostOpBodies : update_postop(postop_id, data)

SpecPostOp == Init /\ [][NextPostOp]_vars

\* the writing requests of both collections, on a few bodies of each
ApiRecordBodies ==
    {[date |-> D_0201], [date |-> D_21], [date |-> D_0230],
     [date |-> D_0101, lekar |-> <<LeakA, LeakB>>] @@ ("upplýsingar" :> Empty)}

ApiPostOpBodies ==
    {PostOpBase,
     ("or-mp" :> Int_(0)) @@ PostOpBase,
     ("or-mp" :> Int_(0)) @@ ("mp-por" :> Str("tos")) @@ PostOpBase}

NextApi ==
    \/ \E data \in ApiRecordBodies : create_record(data)
    \/ \E record_id \in IdTexts, data \in ApiRecordBodies : update_record(record_id, data)
    \/ \E data \in ApiPostOpBodies : create_postop(data)
    \/ \E postop_id \in IdTexts, data \in ApiPostOpBodies : update_postop(postop_id, data)

SpecApi == Init /\ [][NextApi]_vars

-----------------------------------------------------------------------------
(* The migration scripts (src/migrate_*.py).  Each run is one step: the      *)
(* scripts are run by hand, one at a time, while no request is served.  In   *)
(* the documents they read, 'frábært' is a tagged scalar, since its type is  *)
(* what the scripts change.                                                  *)

\* Bound: how many documents the database holds before the migrations run.
MaxLegacy == 2

\* a stored nightly document as BSON: 'frábært' with its type
AsBson(doc) == [doc EXCEPT !["frábært"] = Int_(@)]

\* {path: {'$exists': True}} for a path 'upplýsingar.<k>'
ExistsIn(doc, k) == Has(doc, "upplýsingar") /\ Has(doc["upplýsingar"], k)

\* {'$set': {'upplýsingar.<k>': v, ...}}: the sub-document is created when
\* the document has none
SetIn(doc, fields) ==
    ("upplýsingar" :> (fields @@ (IF Has(doc, "upplýsingar") THEN doc["upplýsingar"] ELSE Empty)))
        @@ doc

\* {'$unset': {'upplýsingar.<k>': ''}}
UnsetIn(doc, k) ==
    IF ExistsIn(doc, k)
    THEN [doc EXCEPT !["upplýsingar"] = [x \in DOMAIN @ \ {k} |-> @[x]]]
    ELSE doc

\* {field: False} / {field: True}: a query for a boolean matches booleans only
MatchesBool(doc, k, b) == Has(doc, k) /\ doc[k] = Bool(b)

\* {field: 0}: a query for a number matches an int or a double of that value
MatchesNumber(doc, k, n) ==
    Has(doc, k) /\ ((doc[k].t = "int" /\ doc[k].n = n) \/ (doc[k].t = "float" /\ doc[k].n = 2 * n))

\* result.modified_count: the documents an update changed
modified_count(before, after) == Cardinality({o \in DOMAIN before : before[o] # after[o]})

\* migrate_frábært.py, lines 33-41
frabaert_backfill(doc) == IF Has(doc, "frábært") THEN doc ELSE ("frábært" :> Bool(FALSE)) @@ doc

\* migrate_frábært_to_int.py, lines 46-49 and 54-57
frabaert_false_to_0(doc) == IF MatchesBool(doc, "frábært", FALSE) THEN ("frábært" :> Int_(0)) @@ doc ELSE doc

frabaert_true_to_1(doc) == IF MatchesBool(doc, "frábært", TRUE) THEN ("frábært" :> Int_(1)) @@ doc ELSE doc

\* a slip: the records to split found by the new field
has_old_field_new(doc) == ExistsIn(doc, "sið lip")

\* migrate_split_lip_riv.py, line 36: the records that have the old field
has_old_field(doc) == ExistsIn(doc, "lip-riv")

\* a slip: the update without its '$unset'
split_old_field_keeps(doc) ==
    IF has_old_field(doc)
    THEN SetIn(doc, ("sið lip" :> doc["upplýsingar"]["lip-riv"]) @@ ("sið-riv" :> "--:--"))
    ELSE doc

\* migrate_split_lip_riv.py, lines 51-69: the update of one record found
split_old_field(doc) ==
    IF has_old_field(doc)
    THEN LET old_lip_riv_value ==
                 IF ExistsIn(doc, "lip-riv") THEN doc["upplýsingar"]["lip-riv"] ELSE ""
         IN UnsetIn(SetIn(doc, ("sið lip" :> old_lip_riv_value) @@ ("sið-riv" :> "--:--")),
                    "lip-riv")
    ELSE doc

\* migrate_split_lip_riv.py, lines 80-101: the records with neither new field
add_new_fields(doc) ==
    IF ~ExistsIn(doc, "sið lip") /\ ~ExistsIn(doc, "sið-riv")
    THEN SetIn(doc, ("sið lip" :> "") @@ ("sið-riv" :> "--:--"))
    ELSE doc

\* migrate_split_lip_riv.py, lines 105-118: the script's own verification
split_verified(coll) ==
    \A o \in DOMAIN coll :
        /\ ExistsIn(coll[o], "sið lip")
        /\ ExistsIn(coll[o], "sið-riv")
        /\ ~ExistsIn(coll[o], "lip-riv")

\* migrate_postop_mp.py, lines 21-24
postop_mp_0_to_no(doc) == IF MatchesNumber(doc, "or-mp", 0) THEN ("or-mp" :> Str("no")) @@ doc ELSE doc

\* migrate_postop_dol.py, lines 21-24
postop_dol_backfill(doc) == IF Has(doc, "dol") THEN doc ELSE [dol |-> 0] @@ doc

migrate_frabaert ==
    LET after == [o \in DOMAIN collection |-> frabaert_backfill(collection[o])]
    IN /\ collection' = after
       /\ request' = [op |-> "migrate_frábært"]
       /\ UNCHANGED inflight
       /\ response' = [modified |-> modified_count(collection, after),
                       verified |-> \A o \in DOMAIN after : Has(after[o], "frábært")]
       /\ UNCHANGED <<postop_collection, oids>>

migrate_frabaert_to_int ==
    LET zeroed == [o \in DOMAIN collection |-> frabaert_false_to_0(collection[o])]
        after == [o \in DOMAIN collection |-> frabaert_true_to_1(zeroed[o])]
    IN /\ collection' = after
       /\ request' = [op |-> "migrate_frábært_to_int"]
       /\ UNCHANGED inflight
       /\ response' = [modified |-> modified_count(collection, after),
                       verified |-> \A o \in DOMAIN after :
                                       ~MatchesBool(after[o], "frábært", TRUE)
                                       /\ ~MatchesBool(after[o], "frábært", FALSE)]
       /\ UNCHANGED <<postop_collection, oids>>

migrate_split_lip_riv ==
    LET split == [o \in DOMAIN collection |-> split_old_field(collection[o])]
        after == [o \in DOMAIN collection |-> add_new_fields(split[o])]
    IN /\ collection' = after
       /\ request' = [op |-> "migrate_split_lip_riv"]
       /\ UNCHANGED inflight
       /\ response' = [modified |-> modified_count(collection, split) + modified_count(split, after),
                       verified |-> split_verified(after)]
       /\ UNCHANGED <<postop_collection, oids>>

migrate_postop_mp ==
    LET after == [o \in DOMAIN postop_collection |-> postop_mp_0_to_no(postop_collection[o])]
    IN /\ postop_collection' = after
       /\ request' = [op |-> "migrate_postop_mp"]
       /\ UNCHANGED inflight
       /\ response' = [modified |-> modified_count(postop_collection, after)]
       /\ UNCHANGED <<collection, oids>>

migrate_postop_dol ==
    LET after == [o \in DOMAIN postop_collection |-> postop_dol_backfill(postop_collection[o])]
    IN /\ postop_collection' = after
       /\ request' = [op |-> "migrate_postop_dol"]
       /\ UNCHANGED inflight
       /\ response' = [modified |-> modified_count(postop_collection, after)]
       /\ UNCHANGED <<collection, oids>>

\* the nightly documents the migrations find: those of the versions of the
\* API the scripts were written for, and those of the current one
HistoricNightly ==
    {[date |-> D_0101] @@ ("upplýsingar" :> (("lip-riv" :> "22:30") @@ [hvar |-> "heima"])),
     [date |-> D_0115] @@ ("frábært" :> Bool(TRUE)) @@ ("upplýsingar" :> ("lip-riv" :> "")),
     [date |-> D_0131] @@ ("frábært" :> Bool(FALSE)),
     [date |-> D_0201] @@ ("frábært" :> Int_(2))
        @@ ("upplýsingar" :> (("sið lip" :> "23:00") @@ ("sið-riv" :> "23:10")))}
      \cup {AsBson(RecordSchema[data].validated_data) :
              data \in {b \in ApiRecordBodies : RecordSchema[b].errors = {}}}

\* the postop documents the migrations find
HistoricPostOp ==
    {[k \in DOMAIN d \ {"dol"} |-> d[k]] :
        d \in {PostOpPayload(PostOpSchema_load(("or-mp" :> Int_(0)) @@ PostOpBase)),
               PostOpPayload(PostOpSchema_load(("or-mp" :> Int_(1)) @@ ("mp-por" :> Str("tos"))
                                                  @@ PostOpBase))}}
      \cup {PostOpPayload(PostOpSchema[data].validated) :
              data \in {b \in ApiPostOpBodies : PostOpSchema[b].errors = {}}}

\* the database before a migration runs
InitMigrate ==
    /\ \E n \in 0..MaxLegacy, m \in 0..MaxLegacy :
          /\ n + m <= MaxLegacy
          /\ collection \in [1..n -> HistoricNightly]
          /\ postop_collection \in [1..m -> HistoricPostOp]
    /\ oids = MaxLegacy
    /\ request = [op |-> "none"]
    /\ response = [status |-> 0]
    /\ inflight = [w \in Workers |-> Idle]

NextMigrate ==
    \/ migrate_frabaert
    \/ migrate_frabaert_to_int
    \/ migrate_split_lip_riv
    \/ migrate_postop_mp
    \/ migrate_postop_dol

SpecMigrate == InitMigrate /\ [][NextMigrate]_vars

-----------------------------------------------------------------------------
(* create_record served by several workers at once (the WSGI server runs a  *)
(* handler per request, and nothing in the handler locks): each call to the *)
(* database is one step, and the steps of the workers interleave.           *)

\* a slip: a unique index on 'date', under which the insert of a second
\* record of a date fails
insert_one_unique(coll, oid, doc) ==
    IF find_by_date(coll, doc["date"]) # {} THEN coll ELSE (oid :> doc) @@ coll

\* collection.insert_one(doc), with the ObjectId the driver generates
insert_one(coll, oid, doc) == (oid :> doc) @@ coll

\* lines 214-228: the body is read and validated; nothing is read or written
create_record_load(w, data) ==
    /\ inflight[w].pc \in {"idle", "done"}
    /\ inflight' = [inflight EXCEPT ![w] =
          IF RecordSchema[data].errors # {}
          THEN [pc |-> "done", data |-> data,
                response |-> Fail(400, "ValidationError", RecordSchema[data].errors)]
          ELSE [pc |-> "find_one", data |-> data]]
    /\ UNCHANGED <<collection, postop_collection, oids, request, response>>

\* lines 231-236: the pre-check
create_record_find_one(w) ==
    /\ inflight[w].pc = "find_one"
    /\ inflight' = [inflight EXCEPT ![w] =
          IF find_by_date(collection, RecordSchema[@.data].validated_data["date"]) # {}
          THEN [pc |-> "done", data |-> @.data,
                response |-> Fail(400, "Record for this date already exists", {})]
          ELSE [pc |-> "insert_one", data |-> @.data]]
    /\ UNCHANGED <<collection, postop_collection, oids, request, response>>

\* lines 239-242: the write
create_record_insert_one(w) ==
    /\ inflight[w].pc = "insert_one"
    /\ oids < MaxOid
    /\ oids' = oids + 1
    /\ collection' = insert_one(collection, oids', RecordSchema[inflight[w].data].validated_data)
    /\ inflight' = [inflight EXCEPT ![w] = [pc |-> "read_back", data |-> @.data, id |-> oids']]
    /\ UNCHANGED <<postop_collection, request, response>>

\* lines 245-250: the record is read back and returned
create_record_return(w) ==
    /\ inflight[w].pc = "read_back"
    /\ inflight' = [inflight EXCEPT ![w] =
          [pc |-> "done", data |-> @.data,
           response |-> Ok(201, serialize_record(find_by_id(collection, @.id)))]]
    /\ UNCHANGED <<collection, postop_collection, oids, request, response>>

NextRace ==
    \/ \E w \in Workers, data \in ApiRecordBodies : create_record_load(w, data)
    \/ \E w \in Workers : create_record_find_one(w)
    \/ \E w \in Workers : create_record_insert_one(w)
    \/ \E w \in Workers : create_record_return(w)

SpecRace == Init /\ [][NextRace]_vars

-----------------------------------------------------------------------------
(* Requests to /api/records whose bodies carry the nested objects *)

NextInfo ==
    \/ \E data \in InfoBodies : create_record(data)
    \/ \E record_id \in IdTexts, data \in InfoBodies : update_record(record_id, data)

SpecInfo == Init /\ [][NextInfo]_vars

-----------------------------------------------------------------------------
(* migrate_postop_mp run on a database that the current API has written *)

NextPostOpMigrate ==
    \/ \E data \in PostOpBodies : create_postop(data)
    \/ \E postop_id \in IdTexts, data \in PostOpBodies : update_postop(postop_id, data)
    \/ migrate_postop_mp

SpecPostOpMigrate == Init /\ [][NextPostOpMigrate]_vars

-----------------------------------------------------------------------------
(* Properties of /api/records *)

\* a document without the given keys
Without(doc, keys) == [k \in DOMAIN doc \ keys |-> doc[k]]

\* the length of the 'lekar' list a body resolves to
ResolvedLeaks(data) == IF Has(data, "lekar") THEN Len(data["lekar"]) ELSE 0

\* the calendar day a stored or a sent 'date' denotes
Day(text) == from_iso_date(text)

\* the stored records of a day
OnDay(coll, day) == {o \in DOMAIN coll : Day(coll[o]["date"]) = day}

Dates(coll) == {coll[o]["date"] : o \in DOMAIN coll}

\* C1: after every successful create_record or update_record, 'fjöldi leka' in
\* the returned document is the length of the 'lekar' list the body resolves
\* to, and every stored document carries the length of its own 'lekar' list.
C1_LeakCount ==
    /\ \A o \in DOMAIN collection :
          collection[o]["fjöldi leka"] = Len(collection[o]["lekar"])
    /\ (request.op \in {"create_record", "update_record"} /\ response.success) =>
          /\ response.data["fjöldi leka"] = ResolvedLeaks(request.data)
          /\ collection[ObjectId(response.data["_id"])]["fjöldi leka"]
                = ResolvedLeaks(request.data)

\* C1 witness: an update has replaced a record of two leaks by one of none
C1_Witness ==
    /\ request.op = "update_record"
    /\ response.success
    /\ response.data["fjöldi leka"] = 0
    /\ \E o \in DOMAIN collection : collection[o]["fjöldi leka"] = 2

\* C2: a create_record whose body is valid is refused with the conflict error
\* and inserts nothing when a stored record has its day; otherwise it answers
\* 201 and the collection gains exactly one record, of that day.
C2_CreateByDate ==
    [][(request'.op = "create_record" /\ RecordSchema_errors(request'.data) = {}) =>
          LET day == Day(request'.data["date"])
          IN IF OnDay(collection, day) # {}
             THEN /\ response'.status = 400
                  /\ response'.error.message = "Record for this date already exists"
                  /\ collection' = collection
             ELSE /\ response'.status = 201
                  /\ \E o \in DOMAIN collection' \ DOMAIN collection :
                        /\ DOMAIN collection' = DOMAIN collection \cup {o}
                        /\ Day(collection'[o]["date"]) = day
                  /\ \A o \in DOMAIN collection : collection'[o] = collection[o]]_vars

\* C2 witness: a create was refused for a day that was written differently
C2_Witness ==
    /\ request.op = "create_record"
    /\ response.status = 400
    /\ RecordSchema_errors(request.data) = {}
    /\ request.data["date"] \notin Dates(collection)
    /\ Cardinality(DOMAIN collection) = 2

\* C3 (as claimed): no two stored records have the same 'date'.
C3_UniqueDate ==
    \A o1, o2 \in DOMAIN collection :
        o1 # o2 => collection[o1]["date"] # collection[o2]["date"]

\* C8: delete_record of an identifier the collection does not hold answers 404
\* and changes nothing; of one it holds, removes that record and no other; a
\* removed identifier never comes back, and get_record of an identifier the
\* collection does not hold answers 404.
C8_Delete ==
    [][/\ (request'.op = "delete_record" /\ ObjectId_is_valid(request'.id)) =>
            IF request'.id.hex \notin DOMAIN collection
            THEN response'.status = 404 /\ collection' = collection
            ELSE /\ response'.status = 200
                 /\ DOMAIN collection' = DOMAIN collection \ {request'.id.hex}
                 /\ \A o \in DOMAIN collection' : collection'[o] = collection[o]
       /\ \A o \in 1..oids : o \notin DOMAIN collection => o \notin DOMAIN collection'
       /\ (request'.op = "get_record" /\ ObjectId_is_valid(request'.id)
              /\ request'.id.hex \notin DOMAIN collection) => response'.status = 404
       /\ (request.op = "delete_record" /\ response.status = 200
              /\ request'.op = "get_record" /\ request'.id = request.id)
            => response'.status = 404]_vars

\* C8 witness: a record was deleted, another is left, and the get_record that
\* followed was answered 404
C8_Witness ==
    /\ request.op = "get_record"
    /\ response.status = 404
    /\ request.id.hex <= oids
    /\ collection # <<>>

\* C9: the get_record that follows a successful create_record, with the
\* identifier it returned, yields the inserted document in every field but
\* '_id' and 'fjöldi leka'.
C9_RoundTrip ==
    [][(request.op = "create_record" /\ response.status = 201
          /\ request'.op = "get_record" /\ request'.id = response.data["_id"]) =>
        /\ response'.status = 200
        /\ Without(response'.data, {"_id", "fjöldi leka"})
              = Without(NightlyDoc(request.data), {"_id", "fjöldi leka"})
        /\ RecordFields \subseteq DOMAIN response'.data]_vars

\* C9 witness: a record with leaks has been read back; another is stored
C9_Witness ==
    /\ request.op = "get_record"
    /\ response.status = 200
    /\ Len(response.data["lekar"]) = 2
    /\ ObjectId(request.id) = oids
    /\ Cardinality(DOMAIN collection) > 1

\* the bounds of a query: an absent or empty parameter is no bound
InRange(args, date) ==
    /\ (Has(args, "start_date") /\ args["start_date"] # <<>>) => StrLeq(args["start_date"], date)
    /\ (Has(args, "end_date") /\ args["end_date"] # <<>>) => StrLeq(date, args["end_date"])

\* C10: get_records returns exactly the stored records whose 'date' lies
\* within the bounds (inclusive, compared as strings), each once, in
\* descending order of 'date', and 'count' is their number; of records dated
\* 2024-01-01, 2024-01-15 and 2024-02-01 the range 2024-01-01..2024-01-31
\* returns 2024-01-15, then 2024-01-01.
C10_RangeFilter ==
    request.op = "get_records" =>
        LET data == response.data
        IN /\ response.status = 200
           /\ response.count = Len(data)
           /\ {ObjectId(data[i]["_id"]) : i \in DOMAIN data}
                 = {o \in DOMAIN collection : InRange(request.args, collection[o]["date"])}
           /\ \A i, j \in DOMAIN data : i # j => data[i]["_id"] # data[j]["_id"]
           /\ \A i \in DOMAIN data :
                 Without(data[i], {"_id"}) = collection[ObjectId(data[i]["_id"])]
           /\ \A i, j \in DOMAIN data : i < j => StrLeq(data[j]["date"], data[i]["date"])
           /\ (/\ Dates(collection) = {D_0101, D_0115, D_0201}
               /\ Cardinality(DOMAIN collection) = 3
               /\ request.args = [start_date |-> D_0101, end_date |-> D_0131])
                 => [i \in DOMAIN data |-> data[i]["date"]] = <<D_0115, D_0101>>

\* C10 witness: the example of the claim
C10_Witness ==
    /\ request.op = "get_records"
    /\ request.args = [start_date |-> D_0101, end_date |-> D_0131]
    /\ Dates(collection) = {D_0101, D_0115, D_0201}
    /\ Cardinality(DOMAIN collection) = 3
    /\ response.count = 2

-----------------------------------------------------------------------------
(* Properties of /api/postop *)

IsCode(x) == x.t = "int" /\ x.n \in {0, 1, 2}

\* C4: every stored postop document whose 'or-mp' is an integer in {0, 1, 2}
\* has a non-empty 'mp-por', and none whose 'or-mp' is 'no' has a 'mp-por'.
C4_ReasonCode ==
    \A o \in DOMAIN postop_collection :
        LET doc == postop_collection[o]
        IN /\ IsCode(doc["or-mp"]) =>
                 Has(doc, "mp-por") /\ doc["mp-por"].t = "str" /\ doc["mp-por"].s # ""
           /\ doc["or-mp"] = Str("no") => ~Has(doc, "mp-por")

\* C4 witness: an update has left a document with 'no' beside one with a code
C4_Witness ==
    /\ request.op = "update_postop"
    /\ response.success
    /\ response.data["or-mp"] = Str("no")
    /\ \E o \in DOMAIN postop_collection : IsCode(postop_collection[o]["or-mp"])

\* a create or an update whose 'or-mp' is 0, 1 or 2 and whose other fields
\* are valid
C5_Case(req) ==
    /\ req.op \in {"create_postop", "update_postop"}
    /\ req.op = "update_postop" => ObjectId_is_valid(req.id)
    /\ Has(req.data, "or-mp")
    /\ IsCode(req.data["or-mp"])
    /\ PostOpSchema_field_errors(Without(req.data, {"mp-por"})) = {}

\* C5: such a request without 'mp-por', or with null, is refused with a
\* validation error that names 'mp-por' and writes nothing; with an allowed
\* 'mp-por' it succeeds (an update: when the identifier is stored) and the
\* stored document carries that 'mp-por'.
C5_ReasonRequired ==
    [][C5_Case(request') =>
          LET data == request'.data
          IN IF ~Has(data, "mp-por") \/ data["mp-por"] = Null
             THEN /\ response'.status = 400
                  /\ "mp-por" \in response'.error.fields
                  /\ UNCHANGED <<collection, postop_collection>>
             ELSE (/\ data["mp-por"].s \in MpPor
                   /\ request'.op = "update_postop" =>
                         ObjectId(request'.id) \in DOMAIN postop_collection)
                  => /\ response'.success
                     /\ postop_collection'[ObjectId(response'.data["_id"])]["mp-por"]
                           = data["mp-por"]]_vars

\* C5 witness: an update of a stored document was refused for its 'mp-por'
C5_Witness ==
    /\ request.op = "update_postop"
    /\ ObjectId(request.id) \in DOMAIN postop_collection
    /\ Has(request.data, "or-mp")
    /\ request.data["or-mp"] = Int_(2)
    /\ ~Has(request.data, "mp-por")
    /\ response.status = 400
    /\ response.error.fields = {"mp-por"}

\* C6: a successful update_postop with 'or-mp' = 'no' of a document that had a
\* code and a 'mp-por' leaves it with 'or-mp' = 'no' and no 'mp-por' key.
C6_ReasonCleared ==
    [][(/\ request'.op = "update_postop"
        /\ response'.status = 200
        /\ Has(request'.data, "or-mp")
        /\ request'.data["or-mp"] = Str("no")
        /\ IsCode(postop_collection[ObjectId(request'.id)]["or-mp"])
        /\ Has(postop_collection[ObjectId(request'.id)], "mp-por"))
       => /\ postop_collection'[ObjectId(request'.id)]["or-mp"] = Str("no")
          /\ ~Has(postop_collection'[ObjectId(request'.id)], "mp-por")
          /\ ~Has(response'.data, "mp-por")]_vars

\* C6 witness: the only document stored, last written with 'no' and a
\* 'mp-por' in the body of an update, has no 'mp-por'
C6_Witness ==
    /\ request.op = "update_postop"
    /\ response.status = 200
    /\ Has(request.data, "or-mp")
    /\ request.data["or-mp"] = Str("no")
    /\ Has(request.data, "mp-por")
    /\ request.data["mp-por"] = Str("tos")
    /\ ~Has(postop_collection[ObjectId(request.id)], "mp-por")

\* C7: a create or an update that is answered 400 (a validation failure, a
\* malformed identifier, a duplicate date) leaves both collections as they
\* were.
C7_NoPartialWrite ==
    [][(/\ request'.op \in {"create_record", "update_record", "create_postop", "update_postop"}
        /\ response'.status = 400)
       => UNCHANGED <<collection, postop_collection>>]_vars

\* C7 witness: a create was refused for its date while both collections hold
\* documents
C7_Witness ==
    /\ request.op = "create_record"
    /\ response.status = 400
    /\ response.error.message = "Record for this date already exists"
    /\ collection # <<>>
    /\ postop_collection # <<>>

-----------------------------------------------------------------------------
(* Properties of the migrations *)

Migrations ==
    {"migrate_frábært", "migrate_frábært_to_int", "migrate_split_lip_riv",
     "migrate_postop_mp", "migrate_postop_dol"}

\* C11: a migration run right after a run of the same migration changes no
\* document of either collection and reports zero modified documents, so two
\* runs in succession leave the document set one run leaves.
C11_Idempotent ==
    [][(request.op \in Migrations /\ request'.op = request.op) =>
          /\ collection' = collection
          /\ postop_collection' = postop_collection
          /\ response'.modified = 0]_vars

\* C11 witness: a second run of the split that found nothing to do, after a
\* first run that had split a record
C11_Witness ==
    /\ request.op = "migrate_split_lip_riv"
    /\ response.modified = 0
    /\ \E o \in DOMAIN collection :
          /\ ExistsIn(collection[o], "sið lip")
          /\ collection[o]["upplýsingar"]["sið lip"] = "22:30"
          /\ collection[o]["upplýsingar"]["sið-riv"] = "--:--"

-----------------------------------------------------------------------------
(* Properties of concurrent requests *)

\* the workers that have answered 201 to a create_record of the given day
Created(day) ==
    {w \in Workers : /\ inflight[w].pc = "done"
                     /\ inflight[w].response.status = 201
                     /\ Day(inflight[w].data["date"]) = day}

\* the worker's request has passed the pre-check and has written
Inserted(fl, w) ==
    \/ fl[w].pc = "read_back"
    \/ fl[w].pc = "done" /\ fl[w].response.status = 201

\* C12: a create_record that has passed its pre-check inserts its record
\* whatever the collection holds by then (the write checks nothing), and
\* answers 201; so when two concurrent requests of one day have both passed
\* the pre-check, two records of that day are stored and both answer 201.
C12_Race ==
    [][\A w \in Workers :
          /\ (inflight[w].pc = "insert_one" /\ inflight'[w] # inflight[w]) =>
                \E o \in DOMAIN collection' \ DOMAIN collection :
                    /\ collection' = insert_one(collection, o,
                                                RecordSchema[inflight[w].data].validated_data)
                    /\ inflight'[w].pc = "read_back"
          /\ (inflight[w].pc = "read_back" /\ inflight'[w] # inflight[w]) =>
                /\ inflight'[w].response.status = 201
                /\ ObjectId(inflight'[w].response.data["_id"]) \in DOMAIN collection'
          /\ \A u \in Workers \ {w} :
                (Inserted(inflight', w) /\ Inserted(inflight', u)
                    /\ Day(inflight'[w].data["date"]) = Day(inflight'[u].data["date"])) =>
                   Cardinality(OnDay(collection', Day(inflight'[w].data["date"]))) >= 2]_vars

\* C12 witness: both workers have answered 201 to a create_record of the same
\* day, and two stored records have that day
C12_Witness ==
    \E day \in {from_iso_date(D_0201)} :
        /\ Created(day) = Workers
        /\ Cardinality(OnDay(collection, day)) = 2
        /\ inflight[1].response.data["_id"] # inflight[2].response.data["_id"]

-----------------------------------------------------------------------------
(* Properties of the nested objects *)

\* a body's 'upplýsingar' with every omitted sub-object supplied as {}
Supplied(data) ==
    LET info == IF Has(data, "upplýsingar") THEN data["upplýsingar"] ELSE Empty
    IN ("áfengi" :> (IF Has(info, "áfengi") THEN info["áfengi"] ELSE Empty))
          @@ ("æfing" :> (IF Has(info, "æfing") THEN info["æfing"] ELSE Empty))
          @@ info

\* every member of 'upplýsingar', 'áfengi' and 'æfing' is present
FullyDefaulted(info) ==
    /\ DOMAIN info = UpplysingarFields
    /\ DOMAIN info["áfengi"] = AfengiFields
    /\ DOMAIN info["æfing"] = AefingFields

\* C13: the record stored by a successful create_record or update_record has
\* 'upplýsingar' with every member present, 'áfengi' and 'æfing' included
\* with all of theirs, and it is the sub-object stored when each omitted
\* sub-object is supplied as {}.
C13_NestedDefaults ==
    (request.op \in {"create_record", "update_record"} /\ response.success) =>
        LET stored == collection[ObjectId(response.data["_id"])]["upplýsingar"]
        IN /\ FullyDefaulted(stored)
           /\ stored = UpplysingarSchema_load(Supplied(request.data))

\* the alcohol counters a document or a body carries
Counters(doc) ==
    IF Has(doc, "upplýsingar") /\ Has(doc["upplýsingar"], "áfengi")
    THEN {doc["upplýsingar"]["áfengi"][k] : k \in DOMAIN doc["upplýsingar"]["áfengi"]}
    ELSE {}

\* C14: no stored record has a negative alcohol counter, and a create_record
\* or update_record whose body has one is answered 400.
C14_CountersNonNegative ==
    /\ \A o \in DOMAIN collection : \A n \in Counters(collection[o]) : n >= 0
    /\ (request.op \in {"create_record", "update_record"}
          /\ \E n \in Counters(request.data) : n < 0) => response.status = 400

-----------------------------------------------------------------------------
(* Properties of the update requests *)

\* the collection an update request addresses, before and after the step
Addressed(op, nightly, postop) == IF op = "update_record" THEN nightly ELSE postop

\* the body of an update request passes its schema
BodyValid(req) ==
    IF req.op = "update_record" THEN RecordSchema_errors(req.data) = {}
    ELSE PostOpSchema_errors(req.data) = {}

\* an update request whose identifier is well formed and not stored
UnknownId(req, nightly, postop) ==
    /\ req.op \in {"update_record", "update_postop"}
    /\ ObjectId_is_valid(req.id)
    /\ ObjectId(req.id) \notin DOMAIN Addressed(req.op, nightly, postop)

\* an update request whose identifier is malformed
MalformedId(req) ==
    /\ req.op \in {"update_record", "update_postop"}
    /\ ~ObjectId_is_valid(req.id)

\* C15 as stated: an update with a well-formed identifier that is not stored
\* is answered 404 and writes nothing; one with a malformed identifier is
\* answered 400 'Invalid record ID' whatever its body, and writes nothing.
C15_UnknownIs404 ==
    [][/\ UnknownId(request', collection, postop_collection) =>
             /\ response'.status = 404
             /\ collection' = collection /\ postop_collection' = postop_collection
       /\ MalformedId(request') =>
             /\ response'.status = 400
             /\ response'.error.message = "Invalid record ID"
             /\ collection' = collection /\ postop_collection' = postop_collection]_vars

\* C15 amended: the body is validated before the identifier is looked up, so
\* the 404 is the answer when the body is valid; an invalid body is answered
\* 400 with the failing fields.  In every case nothing is written.
C15_NoUpsert ==
    [][/\ UnknownId(request', collection, postop_collection) =>
             /\ IF BodyValid(request')
                THEN response'.status = 404 /\ response'.error.message = "Record not found"
                ELSE response'.status = 400 /\ response'.error.fields # {}
             /\ collection' = collection /\ postop_collection' = postop_collection
       /\ MalformedId(request') =>
             /\ response'.status = 400
             /\ response'.error.message = "Invalid record ID"
             /\ collection' = collection /\ postop_collection' = postop_collection]_vars

\* C15 witness: a valid update of an identifier the nightly collection does
\* not hold (the postop collection does) was answered 404
C15_Witness ==
    /\ UnknownId(request, collection, postop_collection)
    /\ request.op = "update_record"
    /\ BodyValid(request)
    /\ response.status = 404
    /\ ObjectId(request.id) \in DOMAIN postop_collection
    /\ collection # <<>>

C17_MigrationKeepsReasonCode ==
    [][request'.op = "migrate_postop_mp" =>
          \A o \in DOMAIN postop_collection' :
              /\ ~(PyEqStr(postop_collection'[o]["or-mp"], "no")
                     /\ Has(postop_collection'[o], "mp-por"))
              /\ (IsCode(postop_collection[o]["or-mp"]) /\ Has(postop_collection[o], "mp-por")) =>
                    postop_collection'[o]["or-mp"] = postop_collection[o]["or-mp"]]_vars

=============================================================================
